---- MODULE Spec2Model ----
(***************************************************************************)
(* The caching layer of the Gmail MCP agent (src/mastra/agents/gmailAgent.ts *)
(* and the MCP server's shutdown handler).                                   *)
(*                                                                           *)
(* The program runs on one JavaScript event loop.  A step of the model is a  *)
(* maximal synchronous run of the code: from the start of a call, or from    *)
(* the settling of an awaited external promise (connectedAccounts.list,      *)
(* MCPClient.getTools, MCPClient.disconnect, toolkits.authorize), up to the  *)
(* next await of an external promise or to the return of the outermost call. *)
(* Awaits of the module's own async functions that return without external  *)
(* I/O continue in the same step.                                            *)
(***************************************************************************)
EXTENDS Integers, Sequences, FiniteSets, TLC

(***************************************************************************)
(* Bounds of the model.                                                      *)
(***************************************************************************)
MaxTasks == 2
MaxTicks == 2
MaxClients == 2
MaxUuid == 2
MaxDetached == 1
MaxCalls == 3

(***************************************************************************)
(* Program constants and the values the program works with.                 *)
(***************************************************************************)
CACHE_TTL == 5 * 60 * 1000

\* The instants Date.now() is read at: 0, 1, TTL + 1, TTL + 2, 2 TTL + 2, ...
\* (1 ms and CACHE_TTL apart in turn), so that ages below, equal to and above
\* CACHE_TTL all occur.
Instant(n) == (n \div 2) * (CACHE_TTL + 1) + (n % 2)

Instants == {Instant(n) : n \in 0..MaxTicks}

\* JavaScript's null / undefined for an optional string.
JsNull == "<null>"

Tasks == 1..MaxTasks

\* The runtime contexts requests arrive with: a userId, a sessionId, or neither.
Contexts ==
  { [userId |-> "alice", sessionId |-> JsNull],
    [userId |-> JsNull, sessionId |-> "s1"] }

\* uuidv4(): the n-th generated identifier (fresh on every call).
Uuid(n) == "uuid" \o ToString(n)

\* The users the requests name, and all users: those and the generated ones.
ProvidedUserIds == {c.userId : c \in Contexts} \ {JsNull}

UserIds == ProvidedUserIds \cup {Uuid(n) : n \in 1..MaxUuid}

\* The status of a user's gmail connection at Composio (NONE: no connection).
ProviderStatus == {"NONE", "INITIATED", "ACTIVE"}

SessionIds == ({c.sessionId : c \in Contexts} \ {JsNull}) \cup {"default-session"}

\* The id the provider gives the gmail connection of a user.
ConnId(userId) == "ca_" \o userId

\* The tools the Composio MCP server lists.
ToolNames == {"GMAIL_FETCH_EMAILS"}

\* JavaScript truthiness of an optional string.
Truthy(s) == s /= JsNull /\ s /= ""

(***************************************************************************)
(* Map<string, V> as a function whose domain is the set of present keys.    *)
(***************************************************************************)
EmptyMap == [k \in {} |-> 0]

Has(m, k) == k \in DOMAIN m

Put(m, k, v) == [x \in (DOMAIN m) \cup {k} |-> IF x = k THEN v ELSE m[x]]

Remove(m, k) == [x \in (DOMAIN m) \ {k} |-> m[x]]

\* The value Map.get returns for an absent auth-status key.
NoEntry == [connected |-> FALSE, connectionId |-> JsNull, timestamp |-> -1]

AuthKey(userId) == "auth-" \o userId

ToolsKeySharedAcrossUsers(userId, connectionId) ==
  "gmail-" \o (IF Truthy(connectionId) THEN connectionId ELSE "unauth")

\* `gmail-${userId}-${authStatus.connectionId || 'unauth'}`
ToolsKey(userId, connectionId) ==
  "gmail-" \o userId \o "-" \o (IF Truthy(connectionId) THEN connectionId ELSE "unauth")

VARIABLES
  now,               \* the last value Date.now() returned
  provider,          \* per user, the status of the gmail connection at Composio
  authStatusCache,   \* Map: auth key -> {connected, connectionId, timestamp}
  toolsCache,        \* Map: tools key -> tool set (and, as history, when it was stored)
  mcpClientCache,    \* Map: tools key -> MCPClient (its index in clients)
  userSessionCache,  \* Map: sessionId -> generated userId
  uuidCount,         \* how many uuids uuidv4() has generated
  clients,           \* every MCPClient ever constructed, in order of construction
  task,              \* the async calls in flight and their local variables
  detached,          \* cleanupMCPClient calls nobody awaits, suspended in disconnect()
  calls,             \* how many calls of the module's functions have started
  issued,            \* the users whose authorize tool the agent holds
  proc,              \* the hosting process: running, closing, exited
  last,              \* history: the call the last step completed, with its locals
  justInvalidated    \* history: the entries the last step invalidated

vars == <<now, provider, authStatusCache, toolsCache, mcpClientCache, userSessionCache,
          uuidCount, clients, task, detached, calls, issued, proc, last, justInvalidated>>

NoContext == [userId |-> JsNull, sessionId |-> JsNull]

IdleTask ==
  [ op |-> "idle", pc |-> "idle", userId |-> JsNull,
    context |-> NoContext,     \* history: the runtime context a resolver was called with
    cached |-> NoEntry,        \* getCachedAuthStatus: const cached
    seen |-> "NONE",           \* the provider's state when list() was called
    caught |-> FALSE,          \* a catch block was entered
    overwrote |-> NoEntry,     \* history: the entry its authStatusCache.set replaced
    authStatus |-> NoEntry,    \* the value getCachedAuthStatus returned
    cacheKey |-> JsNull,       \* tools resolver: const cacheKey
    mcpClient |-> 0,           \* getCachedTools: let mcpClient
    key |-> JsNull,            \* cleanupMCPClient: key
    client |-> 0,              \* cleanupMCPClient: const client
    iter |-> 0,                \* cleanupGmailAgent: position of the keys() iterator
    threw |-> {},              \* history: the clients whose disconnect() it saw fail
    began |-> "NONE",          \* history: the provider's state when the call began
    snapshot |-> {},           \* history: the clients cached when the call began
    fetched |-> {},            \* history: what its get-or-fetch invoked, "list" or "getTools"
    imm |-> {},                \* history: invalidations right before its get-or-fetch
    ret |-> JsNull ]

Init ==
  /\ now = 0
  /\ provider \in {p \in [UserIds -> ProviderStatus] :
                     \A u \in UserIds \ ProvidedUserIds : p[u] = "NONE"}
  /\ authStatusCache = EmptyMap
  /\ toolsCache = EmptyMap
  /\ mcpClientCache = EmptyMap
  /\ userSessionCache = EmptyMap
  /\ uuidCount = 0
  /\ clients = <<>>
  /\ task = [t \in Tasks |-> IdleTask]
  /\ detached = <<>>
  /\ issued = {}
  /\ calls = 0
  /\ proc = "running"
  /\ last = IdleTask
  /\ justInvalidated = {}

(***************************************************************************)
(* Pure helpers.                                                            *)
(***************************************************************************)
isCacheValidInverted(t, timestamp) == t - timestamp > CACHE_TTL

isCacheValidSwapped(t, timestamp) == timestamp - t < CACHE_TTL

isCacheValidInclusive(t, timestamp) == t - timestamp <= CACHE_TTL

\* isCacheValid (lines 65-67), Date.now() returning t.
isCacheValid(t, timestamp) == t - timestamp < CACHE_TTL

\* getUserId: the userId of the context, else the session's userId, generated
\* and stored on first use.
SessionOf(ctx) == IF Truthy(ctx.sessionId) THEN ctx.sessionId ELSE "default-session"

NeedsUuid(ctx) == ~Truthy(ctx.userId) /\ ~Has(userSessionCache, SessionOf(ctx))

getUserIdNoStore(ctx) ==
  IF Truthy(ctx.userId)
    THEN [userId |-> ctx.userId, sessions |-> userSessionCache, uuids |-> uuidCount]
    ELSE IF Has(userSessionCache, SessionOf(ctx))
      THEN [userId |-> userSessionCache[SessionOf(ctx)],
            sessions |-> userSessionCache, uuids |-> uuidCount]
      ELSE [userId |-> Uuid(uuidCount + 1), sessions |-> userSessionCache,
            uuids |-> uuidCount + 1]

getUserId(ctx) ==
  IF Truthy(ctx.userId)
    THEN [userId |-> ctx.userId, sessions |-> userSessionCache, uuids |-> uuidCount]
    ELSE IF Has(userSessionCache, SessionOf(ctx))
      THEN [userId |-> userSessionCache[SessionOf(ctx)],
            sessions |-> userSessionCache, uuids |-> uuidCount]
      ELSE [userId |-> Uuid(uuidCount + 1),
            sessions |-> Put(userSessionCache, SessionOf(ctx), Uuid(uuidCount + 1)),
            uuids |-> uuidCount + 1]

\* What composio.connectedAccounts.list({userIds: [userId]}) answers when the
\* connection of the user has the given status.
ProviderItems(userId, status) ==
  IF status = "NONE"
    THEN <<>>
    ELSE << [id |-> ConnId(userId), toolkit |-> "gmail", status |-> status] >>

\* connections.items.find(conn => conn.toolkit.slug === 'gmail' && conn.status === 'ACTIVE')
IsActiveGmail(conn) == conn.toolkit = "gmail" /\ conn.status = "ACTIVE"

FindGmailConnection(items) ==
  LET hits == {i \in 1..Len(items) : IsActiveGmail(items[i])}
  IN  IF hits = {} THEN <<>>
      ELSE << items[CHOOSE i \in hits : \A j \in hits : i <= j] >>

\* The authStatus object built from the provider's answer (lines 86-94).
FreshAuthStatus(t, items) ==
  LET found == FindGmailConnection(items)
  IN  [ connected |-> found /= <<>>,
        connectionId |-> IF found /= <<>> /\ Truthy(found[1].id) THEN found[1].id ELSE JsNull,
        timestamp |-> t ]

\* The authStatus object of the catch block (line 102).
FailedAuthStatus(t) == [connected |-> FALSE, connectionId |-> JsNull, timestamp |-> t]

StoreAuthStatusIfAbsent(cacheKey, authStatus) ==
  IF Has(authStatusCache, cacheKey) THEN authStatusCache
  ELSE Put(authStatusCache, cacheKey, authStatus)

\* authStatusCache.set(cacheKey, authStatus) (lines 98 and 103)
StoreAuthStatus(cacheKey, authStatus) == Put(authStatusCache, cacheKey, authStatus)

\* What getCachedAuthStatus does with the outcome of connectedAccounts.list
\* (lines 86-105): the status it stores and returns.
AuthStatusOf(t, ok, items) == IF ok THEN FreshAuthStatus(t, items) ELSE FailedAuthStatus(t)

\* The tools a client's getTools() yields, and the authorize tool of a user.
ServerTools(c) == [n \in ToolNames |-> [id |-> n, client |-> c, userId |-> JsNull]]

AuthorizeTool(userId) == [id |-> "authorize_gmail", client |-> 0, userId |-> userId]

ToolMapLoadedOnly(userId, allTools) == allTools

\* { authorize_gmail: authorizeTool, ...allTools }
ToolMap(userId, allTools) ==
  [ n \in {"authorize_gmail"} \cup (DOMAIN allTools) |->
      IF n \in DOMAIN allTools THEN allTools[n] ELSE AuthorizeTool(userId) ]

\* The prompt the instructions resolver returns.
Prompt(authStatus) == IF authStatus.connected THEN "AUTHENTICATED" ELSE "NOT_AUTHENTICATED"

\* new MCPClient({ id, servers: { composio: { url } } }): the user and the
\* connected account of the url; the id (user and creation time) is a label only.
NewClient(userId, connectionId) ==
  [ userId |-> userId,
    account |-> IF Truthy(connectionId) THEN connectionId ELSE JsNull,
    disconnects |-> 0 ]

\* client.disconnect() is invoked.
Disconnected(cl, c) == [cl EXCEPT ![c].disconnects = @ + 1]

InFlight(t) == task[t].pc /= "idle"

\* Calls start in the lowest free slot (the slots are interchangeable).
FreeSlot(t) == ~InFlight(t) /\ \A s \in Tasks : s < t => InFlight(s)

Invalidated(keys) == {[key |-> k, timestamp |-> -1] : k \in keys}

InvalidatedAuth(userId) ==
  { [ key |-> AuthKey(userId),
      timestamp |-> IF Has(authStatusCache, AuthKey(userId))
                      THEN authStatusCache[AuthKey(userId)].timestamp ELSE -1 ] }

\* How a call ends: it returns a value ("done") or it throws ("thrown").
Ended(tk) == tk.pc \in {"done", "thrown"}

\* A step leaves the call of slot t suspended (tk.pc names the await), or
\* ends it: the slot is free again and `last` shows the call as it ended.
TaskAfter(t, tk) == [task EXCEPT ![t] = IF Ended(tk) THEN IdleTask ELSE tk]

LastAfter(tk) == IF Ended(tk) THEN tk ELSE IdleTask

IssuedAfter(tk) ==
  IF /\ tk.pc = "done"
     /\ tk.op = "tools"
     /\ "authorize_gmail" \in DOMAIN tk.ret
     /\ tk.ret["authorize_gmail"] = AuthorizeTool(tk.userId)
    THEN issued \cup {tk.userId} ELSE issued

(***************************************************************************)
(* getCachedTools (lines 109-130): the synchronous part, up to the await of *)
(* mcpClient.getTools().  tk is the calling task after getCachedAuthStatus  *)
(* returned authStatus.                                                      *)
(***************************************************************************)
CanGetTools(cacheKey) ==
  Has(toolsCache, cacheKey) \/ Has(mcpClientCache, cacheKey) \/ Len(clients) < MaxClients

getCachedToolsFreshClient(tk, authStatus) ==
  LET cacheKey == ToolsKey(tk.userId, authStatus.connectionId)
      tk1 == [tk EXCEPT !.authStatus = authStatus, !.cacheKey = cacheKey,
                        !.cached = NoEntry, !.seen = "NONE", !.caught = FALSE,
                        !.overwrote = NoEntry,
                        !.fetched = {},
                        !.imm = {r \in justInvalidated : r.key = cacheKey}]
  IN  IF Has(toolsCache, cacheKey)
        THEN [ tk |-> [tk1 EXCEPT !.pc = "done",
                                  !.ret = ToolMap(tk.userId, toolsCache[cacheKey].tools)],
               mcpClientCache |-> mcpClientCache, clients |-> clients ]
        ELSE [ tk |-> [tk1 EXCEPT !.pc = "getTools", !.mcpClient = Len(clients) + 1,
                                  !.fetched = @ \cup {"getTools"}],
               mcpClientCache |-> Put(mcpClientCache, cacheKey, Len(clients) + 1),
               clients |-> Append(clients, NewClient(tk.userId, authStatus.connectionId)) ]

getCachedTools(tk, authStatus) ==
  LET cacheKey == ToolsKey(tk.userId, authStatus.connectionId)
      \* the locals of getCachedAuthStatus are gone
      tk1 == [tk EXCEPT !.authStatus = authStatus, !.cacheKey = cacheKey,
                        !.cached = NoEntry, !.seen = "NONE", !.caught = FALSE,
                        !.overwrote = NoEntry,
                        !.fetched = {},
                        !.imm = {r \in justInvalidated : r.key = cacheKey}]
  IN  IF Has(toolsCache, cacheKey)
        THEN [ tk |-> [tk1 EXCEPT !.pc = "done",
                                  !.ret = ToolMap(tk.userId, toolsCache[cacheKey].tools)],
               mcpClientCache |-> mcpClientCache, clients |-> clients ]
        ELSE IF Has(mcpClientCache, cacheKey)
          THEN [ tk |-> [tk1 EXCEPT !.pc = "getTools", !.mcpClient = mcpClientCache[cacheKey],
                                    !.fetched = @ \cup {"getTools"}],
                 mcpClientCache |-> mcpClientCache, clients |-> clients ]
          ELSE [ tk |-> [tk1 EXCEPT !.pc = "getTools", !.mcpClient = Len(clients) + 1,
                                    !.fetched = @ \cup {"getTools"}],
                 mcpClientCache |-> Put(mcpClientCache, cacheKey, Len(clients) + 1),
                 clients |-> Append(clients, NewClient(tk.userId, authStatus.connectionId)) ]

\* The resolver after `await getCachedAuthStatus(userId)`: the instructions
\* resolver returns its prompt, the tools resolver goes on to getCachedTools.
AfterAuthStatus(tk, authStatus) ==
  IF tk.op = "instructions"
    THEN [ tk |-> [tk EXCEPT !.authStatus = authStatus, !.pc = "done",
                             !.ret = Prompt(authStatus)],
           mcpClientCache |-> mcpClientCache, clients |-> clients ]
    ELSE getCachedTools(tk, authStatus)

(***************************************************************************)
(* A request: the instructions resolver (lines 156-197) or the tools        *)
(* resolver (lines 201-264), from its call to the first external await.     *)
(* getCachedAuthStatus (lines 70-84) returns the cached status if it is     *)
(* valid and otherwise calls connectedAccounts.list.  time is what          *)
(* Date.now() returns in isCacheValid (it is not called without an entry).  *)
(***************************************************************************)
StartResolver(t, op, ctx, time) ==
  LET id == getUserId(ctx)
      cacheKey == AuthKey(id.userId)
      cached == IF Has(authStatusCache, cacheKey) THEN authStatusCache[cacheKey] ELSE NoEntry
      tk == [IdleTask EXCEPT !.op = op, !.userId = id.userId, !.context = ctx,
                             !.cached = cached,
                             !.began = provider[id.userId],
                             !.imm = {r \in justInvalidated : r.key = cacheKey}]
      hit == cached /= NoEntry /\ isCacheValid(time, cached.timestamp)
      next == IF hit THEN AfterAuthStatus(tk, cached)
              ELSE [ tk |-> [tk EXCEPT !.pc = "list", !.fetched = {"list"},
                                       !.seen = provider[id.userId]],
                     mcpClientCache |-> mcpClientCache, clients |-> clients ]
  IN  /\ proc = "running"
      /\ calls < MaxCalls
      /\ calls' = calls + 1
      /\ FreeSlot(t)
      /\ time >= now
      /\ cached = NoEntry => time = now
      /\ now' = time
      /\ NeedsUuid(ctx) => uuidCount < MaxUuid
      /\ (hit /\ op = "tools") => CanGetTools(ToolsKey(id.userId, cached.connectionId))
      /\ userSessionCache' = id.sessions
      /\ uuidCount' = id.uuids
      /\ task' = TaskAfter(t, next.tk)
      /\ last' = LastAfter(next.tk)
      /\ issued' = IssuedAfter(next.tk)
      /\ mcpClientCache' = next.mcpClientCache
      /\ clients' = next.clients
      /\ justInvalidated' = {}
      /\ UNCHANGED <<provider, authStatusCache, toolsCache, detached, proc>>

StartInstructions(t, ctx, time) == StartResolver(t, "instructions", ctx, time)

StartTools(t, ctx, time) == StartResolver(t, "tools", ctx, time)

\* connectedAccounts.list settled, with the answer Composio gave when the
\* call was made or gives now, or with an error.  getCachedAuthStatus after
\* the await (lines 86-105), then the resolver.
ListSettles(t, ok, status, time) ==
  LET tk == task[t]
      authStatus == AuthStatusOf(time, ok, ProviderItems(tk.userId, status))
      replaced == IF Has(authStatusCache, AuthKey(tk.userId))
                    THEN authStatusCache[AuthKey(tk.userId)] ELSE NoEntry
      next == AfterAuthStatus([tk EXCEPT !.caught = ~ok, !.overwrote = replaced], authStatus)
  IN  /\ proc = "running"
      /\ tk.pc = "list"
      /\ status \in {tk.seen, provider[tk.userId]}
      /\ time >= now
      /\ now' = time
      /\ tk.op = "tools" => CanGetTools(ToolsKey(tk.userId, authStatus.connectionId))
      /\ authStatusCache' = StoreAuthStatus(AuthKey(tk.userId), authStatus)
      /\ task' = TaskAfter(t, next.tk)
      /\ last' = LastAfter(next.tk)
      /\ issued' = IssuedAfter(next.tk)
      /\ mcpClientCache' = next.mcpClientCache
      /\ clients' = next.clients
      /\ justInvalidated' = {}
      /\ UNCHANGED <<calls, provider, toolsCache, userSessionCache, uuidCount, detached, proc>>

(***************************************************************************)
(* cleanupMCPClient (lines 51-62).  The synchronous part reads the client   *)
(* of the key and, if there is one, calls disconnect() on it and suspends;  *)
(* with no client it deletes the tool set and returns.  After the await the *)
(* key is deleted from both maps, whatever disconnect() did.                *)
(***************************************************************************)
cleanupMCPClient(key, mc, tc, cl) ==
  IF Has(mc, key)
    THEN [client |-> mc[key], toolsCache |-> tc, clients |-> Disconnected(cl, mc[key])]
    ELSE [client |-> 0, toolsCache |-> Remove(tc, key), clients |-> cl]

AfterDisconnectRethrows(key, mc, tc, ok) ==
  IF ok THEN [mcpClientCache |-> Remove(mc, key), toolsCache |-> Remove(tc, key)]
  ELSE [mcpClientCache |-> mc, toolsCache |-> tc]

AfterDisconnectKeepsTools(key, mc, tc, ok) ==
  [mcpClientCache |-> Remove(mc, key), toolsCache |-> tc]

AfterDisconnectKeepsClient(key, mc, tc, ok) ==
  [mcpClientCache |-> mc, toolsCache |-> Remove(tc, key)]

\* ok: whether disconnect() resolved; a rejection is caught (lines 56-58) and
\* the deletes of lines 59 and 61 run all the same.
AfterDisconnect(key, mc, tc, ok) ==
  [mcpClientCache |-> Remove(mc, key), toolsCache |-> Remove(tc, key)]

\* console.error('Error disconnecting MCP client:', error)
Settled(tk, ok) == IF ok THEN tk ELSE [tk EXCEPT !.threw = @ \cup {tk.client}]

(***************************************************************************)
(* cleanupGmailAgent (lines 268-275).  mcpClientCache.keys() is a live      *)
(* iterator in insertion order; clients enter the map in the order of their *)
(* construction, so the iterator's position is the last client visited.     *)
(* The loop runs to the next disconnect() or, past the last key, clears the *)
(* other three maps.                                                         *)
(***************************************************************************)
cleanupLoop(tk, mc, tc, cl) ==
  LET rest == {k \in DOMAIN mc : mc[k] > tk.iter}
      key == CHOOSE k \in rest : \A j \in rest : mc[k] <= mc[j]
      call == cleanupMCPClient(key, mc, tc, cl)
  IN  IF rest /= {}
        THEN [ tk |-> [tk EXCEPT !.pc = "disconnect", !.key = key, !.client = call.client,
                                 !.iter = call.client],
               mcpClientCache |-> mc, toolsCache |-> call.toolsCache, clients |-> call.clients,
               authStatusCache |-> authStatusCache, userSessionCache |-> userSessionCache,
               cleared |-> {} ]
        ELSE [ tk |-> [tk EXCEPT !.pc = "done"],
               mcpClientCache |-> mc, toolsCache |-> EmptyMap, clients |-> cl,
               authStatusCache |-> EmptyMap, userSessionCache |-> EmptyMap,
               cleared |-> Invalidated(DOMAIN tc)
                             \cup { [key |-> k, timestamp |-> authStatusCache[k].timestamp] :
                                    k \in DOMAIN authStatusCache } ]

StartCleanupGmailAgent(t) ==
  LET next == cleanupLoop([IdleTask EXCEPT !.op = "cleanupGmailAgent",
                                           !.snapshot = {mcpClientCache[k] :
                                                           k \in DOMAIN mcpClientCache}],
                          mcpClientCache, toolsCache, clients)
  IN  /\ proc = "running"
      /\ calls < MaxCalls
      /\ calls' = calls + 1
      /\ FreeSlot(t)
      /\ task' = TaskAfter(t, next.tk)
      /\ last' = LastAfter(next.tk)
      /\ mcpClientCache' = next.mcpClientCache
      /\ toolsCache' = next.toolsCache
      /\ clients' = next.clients
      /\ authStatusCache' = next.authStatusCache
      /\ userSessionCache' = next.userSessionCache
      /\ justInvalidated' = next.cleared
      /\ UNCHANGED <<now, provider, uuidCount, detached, issued, proc>>

getToolsSettledNoCleanup(tk, ok) ==
  IF ok
    THEN [ tk |-> [tk EXCEPT !.pc = "done",
                             !.ret = ToolMap(tk.userId, ServerTools(tk.mcpClient))],
           toolsCache |-> Put(toolsCache, tk.cacheKey,
                              [tools |-> ServerTools(tk.mcpClient), storedAt |-> now]),
           clients |-> clients, cleared |-> {} ]
    ELSE [ tk |-> [tk EXCEPT !.pc = "done", !.caught = TRUE,
                             !.ret = ToolMap(tk.userId, EmptyMap)],
           toolsCache |-> toolsCache, clients |-> clients, cleared |-> {} ]

(***************************************************************************)
(* getCachedTools after `await mcpClient.getTools()` (lines 134-146): the   *)
(* tools are cached and returned, or the catch block calls cleanupMCPClient *)
(* and returns {}.                                                           *)
(***************************************************************************)
getToolsSettled(tk, ok) ==
  LET call == cleanupMCPClient(tk.cacheKey, mcpClientCache, toolsCache, clients)
  IN  IF ok
        THEN [ tk |-> [tk EXCEPT !.pc = "done",
                                 !.ret = ToolMap(tk.userId, ServerTools(tk.mcpClient))],
               toolsCache |-> Put(toolsCache, tk.cacheKey,
                                  [tools |-> ServerTools(tk.mcpClient), storedAt |-> now]),
               clients |-> clients, cleared |-> {} ]
        ELSE IF call.client /= 0
          THEN [ tk |-> [tk EXCEPT !.pc = "disconnect", !.caught = TRUE,
                                   !.key = tk.cacheKey, !.client = call.client],
                 toolsCache |-> call.toolsCache, clients |-> call.clients, cleared |-> {} ]
          ELSE [ tk |-> [tk EXCEPT !.pc = "done", !.caught = TRUE, !.key = tk.cacheKey,
                                   !.ret = ToolMap(tk.userId, EmptyMap)],
                 toolsCache |-> call.toolsCache, clients |-> call.clients,
                 cleared |-> Invalidated({tk.cacheKey}) ]

GetToolsSettles(t, ok) ==
  LET next == getToolsSettled(task[t], ok)
  IN  /\ proc = "running"
      /\ task[t].pc = "getTools"
      /\ toolsCache' = next.toolsCache
      /\ clients' = next.clients
      /\ task' = TaskAfter(t, next.tk)
      /\ last' = LastAfter(next.tk)
      /\ issued' = IssuedAfter(next.tk)
      /\ justInvalidated' = next.cleared
      /\ UNCHANGED <<calls, now, provider, authStatusCache, mcpClientCache, userSessionCache,
                     uuidCount, detached, proc>>

\* An awaited cleanupMCPClient after `await client.disconnect()` (lines
\* 56-61), then its caller: getCachedTools returns {} (line 145), or the
\* loop of cleanupGmailAgent goes on.
DisconnectSettles(t, ok) ==
  LET tk == Settled(task[t], ok)
      after == AfterDisconnect(tk.key, mcpClientCache, toolsCache, ok)
      next == IF tk.op = "cleanupGmailAgent"
                THEN cleanupLoop(tk, after.mcpClientCache, after.toolsCache, clients)
                ELSE [ tk |-> [tk EXCEPT !.pc = "done", !.ret = ToolMap(tk.userId, EmptyMap)],
                       mcpClientCache |-> after.mcpClientCache,
                       toolsCache |-> after.toolsCache, clients |-> clients,
                       authStatusCache |-> authStatusCache,
                       userSessionCache |-> userSessionCache, cleared |-> {} ]
  IN  /\ proc = "running"
      /\ tk.pc = "disconnect"
      /\ task' = TaskAfter(t, next.tk)
      /\ last' = LastAfter(next.tk)
      /\ issued' = IssuedAfter(next.tk)
      /\ mcpClientCache' = next.mcpClientCache
      /\ toolsCache' = next.toolsCache
      /\ clients' = next.clients
      /\ authStatusCache' = next.authStatusCache
      /\ userSessionCache' = next.userSessionCache
      /\ justInvalidated' = Invalidated({tk.key}) \cup next.cleared
      /\ UNCHANGED <<calls, now, provider, uuidCount, detached, proc>>

(***************************************************************************)
(* authorizeTool.execute (lines 209-238), the tool a tools resolver handed  *)
(* out for its userId.                                                       *)
(***************************************************************************)
StartAuthorize(t, userId) ==
  /\ proc = "running"
  /\ calls < MaxCalls
  /\ calls' = calls + 1
  /\ FreeSlot(t)
  /\ userId \in issued
  /\ task' = [task EXCEPT ![t] = [IdleTask EXCEPT !.op = "authorize", !.pc = "authorize",
                                                  !.userId = userId]]
  /\ last' = IdleTask
  /\ justInvalidated' = {}
  /\ UNCHANGED <<now, provider, authStatusCache, toolsCache, mcpClientCache,
                 userSessionCache, uuidCount, clients, detached, issued, proc>>

authorizeSettledKeepsStatus(tk, ok) ==
  [ tk |-> [tk EXCEPT !.pc = "done", !.caught = ~ok, !.ret = [success |-> ok]],
    authStatusCache |-> authStatusCache,
    provider |-> [provider EXCEPT ![tk.userId] = IF ok /\ @ = "NONE" THEN "INITIATED" ELSE @],
    cleared |-> IF ok THEN InvalidatedAuth(tk.userId) ELSE {} ]

authorizeSettledAlwaysClears(tk, ok) ==
  [ tk |-> [tk EXCEPT !.pc = "done", !.caught = ~ok, !.ret = [success |-> ok]],
    authStatusCache |-> Remove(authStatusCache, AuthKey(tk.userId)),
    provider |-> [provider EXCEPT ![tk.userId] = IF ok /\ @ = "NONE" THEN "INITIATED" ELSE @],
    cleared |-> InvalidatedAuth(tk.userId) ]

\* composio.toolkits.authorize settled: on success the connection request
\* exists at the provider and the auth status of the user is deleted.
authorizeSettled(tk, ok) ==
  IF ok
    THEN [ tk |-> [tk EXCEPT !.pc = "done", !.ret = [success |-> TRUE]],
           authStatusCache |-> Remove(authStatusCache, AuthKey(tk.userId)),
           provider |-> [provider EXCEPT ![tk.userId] = IF @ = "NONE" THEN "INITIATED" ELSE @],
           cleared |-> InvalidatedAuth(tk.userId) ]
    ELSE [ tk |-> [tk EXCEPT !.pc = "done", !.caught = TRUE, !.ret = [success |-> FALSE]],
           authStatusCache |-> authStatusCache, provider |-> provider, cleared |-> {} ]

AuthorizeSettles(t, ok) ==
  LET next == authorizeSettled(task[t], ok)
  IN  /\ proc = "running"
      /\ task[t].pc = "authorize"
      /\ provider' = next.provider
      /\ authStatusCache' = next.authStatusCache
      /\ task' = TaskAfter(t, next.tk)
      /\ last' = LastAfter(next.tk)
      /\ justInvalidated' = next.cleared
      /\ UNCHANGED <<calls, now, toolsCache, mcpClientCache, userSessionCache, uuidCount, clients,
                     detached, issued, proc>>

\* The user completes the OAuth flow at the provider: the connection is ACTIVE.
CompleteAuthorization(userId) ==
  /\ proc = "running"
  /\ provider[userId] = "INITIATED"
  /\ provider' = [provider EXCEPT ![userId] = "ACTIVE"]
  /\ last' = IdleTask
  /\ justInvalidated' = {}
  /\ UNCHANGED <<calls, now, authStatusCache, toolsCache, mcpClientCache, userSessionCache,
                 uuidCount, clients, task, detached, issued, proc>>

clearGmailAgentCacheAll(userId) ==
  LET authKey == "gmail-" \o userId \o "-unauth"
      unauthKey == "gmail-" \o userId \o "-null"
      c1 == cleanupMCPClient(authKey, mcpClientCache, toolsCache, clients)
      c2 == cleanupMCPClient(unauthKey, mcpClientCache, c1.toolsCache, c1.clients)
      d1 == IF c1.client /= 0 THEN <<[key |-> authKey, client |-> c1.client]>> ELSE <<>>
      d2 == IF c2.client /= 0 THEN <<[key |-> unauthKey, client |-> c2.client]>> ELSE <<>>
  IN  [ authStatusCache |-> EmptyMap,
        toolsCache |-> c2.toolsCache, clients |-> c2.clients,
        detached |-> detached \o d1 \o d2,
        cleared |-> InvalidatedAuth(userId) ]

(***************************************************************************)
(* clearGmailAgentCache (lines 278-285): synchronous; its two calls of      *)
(* cleanupMCPClient are not awaited, so one that finds a client stays       *)
(* suspended in disconnect() after clearGmailAgentCache has returned.       *)
(***************************************************************************)
clearGmailAgentCache(userId) ==
  LET authKey == "gmail-" \o userId \o "-unauth"
      unauthKey == "gmail-" \o userId \o "-null"
      c1 == cleanupMCPClient(authKey, mcpClientCache, toolsCache, clients)
      c2 == cleanupMCPClient(unauthKey, mcpClientCache, c1.toolsCache, c1.clients)
      d1 == IF c1.client /= 0 THEN <<[key |-> authKey, client |-> c1.client]>> ELSE <<>>
      d2 == IF c2.client /= 0 THEN <<[key |-> unauthKey, client |-> c2.client]>> ELSE <<>>
      returned == (IF c1.client = 0 THEN {authKey} ELSE {})
                    \cup (IF c2.client = 0 THEN {unauthKey} ELSE {})
  IN  [ authStatusCache |-> Remove(authStatusCache, AuthKey(userId)),
        toolsCache |-> c2.toolsCache, clients |-> c2.clients,
        detached |-> detached \o d1 \o d2,
        cleared |-> InvalidatedAuth(userId) \cup Invalidated(returned) ]

ClearGmailAgentCache(userId) ==
  LET r == clearGmailAgentCache(userId)
  IN  /\ proc = "running"
      /\ calls < MaxCalls
      /\ calls' = calls + 1
      /\ Len(r.detached) <= MaxDetached
      /\ authStatusCache' = r.authStatusCache
      /\ toolsCache' = r.toolsCache
      /\ clients' = r.clients
      /\ detached' = r.detached
      /\ last' = [IdleTask EXCEPT !.op = "clearGmailAgentCache", !.pc = "done",
                                  !.userId = userId]
      /\ justInvalidated' = r.cleared
      /\ UNCHANGED <<now, provider, mcpClientCache, userSessionCache, uuidCount, task,
                     issued, proc>>

\* A cleanupMCPClient nobody awaits, after `await client.disconnect()`.
DetachedDisconnectSettles(i, ok) ==
  LET d == detached[i]
      after == AfterDisconnect(d.key, mcpClientCache, toolsCache, ok)
  IN  /\ proc = "running"
      /\ mcpClientCache' = after.mcpClientCache
      /\ toolsCache' = after.toolsCache
      /\ detached' = SubSeq(detached, 1, i - 1) \o SubSeq(detached, i + 1, Len(detached))
      /\ last' = IdleTask
      /\ justInvalidated' = Invalidated({d.key})
      /\ UNCHANGED <<calls, now, provider, authStatusCache, userSessionCache, uuidCount,
                     clients, task, issued, proc>>

\* clearUserSession (lines 288-296): one session, or all of them.
ClearUserSession(sessionId) ==
  /\ proc = "running"
  /\ calls < MaxCalls
  /\ calls' = calls + 1
  /\ userSessionCache' = IF Truthy(sessionId) THEN Remove(userSessionCache, sessionId)
                         ELSE EmptyMap
  /\ last' = IdleTask
  /\ justInvalidated' = {}
  /\ UNCHANGED <<now, provider, authStatusCache, toolsCache, mcpClientCache, uuidCount,
                 clients, task, detached, issued, proc>>

(***************************************************************************)
(* The MCP server's SIGINT handler (lines 363-369): httpServer.close stops  *)
(* accepting requests, and once the requests in flight have ended its       *)
(* callback calls process.exit(0).  Requests in flight at the signal run on *)
(* as they do without it, so the signal is taken when they have ended.      *)
(***************************************************************************)
Sigint ==
  /\ proc = "running"
  /\ \A t \in Tasks : ~InFlight(t)
  /\ proc' = "closing"
  /\ last' = IdleTask
  /\ justInvalidated' = {}
  /\ UNCHANGED <<calls, now, provider, authStatusCache, toolsCache, mcpClientCache,
                 userSessionCache, uuidCount, clients, task, detached, issued>>

ServerClosed ==
  /\ proc = "closing"
  /\ \A t \in Tasks : ~InFlight(t)
  /\ proc' = "exited"
  /\ last' = IdleTask
  /\ justInvalidated' = {}
  /\ UNCHANGED <<calls, now, provider, authStatusCache, toolsCache, mcpClientCache,
                 userSessionCache, uuidCount, clients, task, detached, issued>>

Next ==
  \/ \E t \in Tasks, ctx \in Contexts, time \in Instants : StartInstructions(t, ctx, time)
  \/ \E t \in Tasks, ctx \in Contexts, time \in Instants : StartTools(t, ctx, time)
  \/ \E t \in Tasks, ok \in BOOLEAN, status \in ProviderStatus, time \in Instants :
       ListSettles(t, ok, status, time)
  \/ \E t \in Tasks, ok \in BOOLEAN : GetToolsSettles(t, ok)
  \/ \E t \in Tasks, ok \in BOOLEAN : DisconnectSettles(t, ok)
  \/ \E t \in Tasks, u \in UserIds : StartAuthorize(t, u)
  \/ \E t \in Tasks, ok \in BOOLEAN : AuthorizeSettles(t, ok)
  \/ \E u \in UserIds : CompleteAuthorization(u)
  \/ \E u \in UserIds : ClearGmailAgentCache(u)
  \/ \E i \in 1..Len(detached), ok \in BOOLEAN : DetachedDisconnectSettles(i, ok)
  \/ \E t \in Tasks : StartCleanupGmailAgent(t)
  \/ \E s \in SessionIds \cup {JsNull} : ClearUserSession(s)
  \/ Sigint
  \/ ServerClosed

Spec == Init /\ [][Next]_vars

(***************************************************************************)
(* The sequential use of the module: a call starts only when no other call  *)
(* is in flight and no un-awaited cleanup is pending.                        *)
(***************************************************************************)
Quiet == (\A t \in Tasks : ~InFlight(t)) /\ detached = <<>>

SeqNext ==
  \/ Quiet /\ \E t \in Tasks, ctx \in Contexts, time \in Instants : StartInstructions(t, ctx, time)
  \/ Quiet /\ \E t \in Tasks, ctx \in Contexts, time \in Instants : StartTools(t, ctx, time)
  \/ \E t \in Tasks, ok \in BOOLEAN, status \in ProviderStatus, time \in Instants :
       ListSettles(t, ok, status, time)
  \/ \E t \in Tasks, ok \in BOOLEAN : GetToolsSettles(t, ok)
  \/ \E t \in Tasks, ok \in BOOLEAN : DisconnectSettles(t, ok)
  \/ Quiet /\ \E t \in Tasks, u \in UserIds : StartAuthorize(t, u)
  \/ \E t \in Tasks, ok \in BOOLEAN : AuthorizeSettles(t, ok)
  \/ \E u \in UserIds : CompleteAuthorization(u)
  \/ Quiet /\ \E u \in UserIds : ClearGmailAgentCache(u)
  \/ \E i \in 1..Len(detached), ok \in BOOLEAN : DetachedDisconnectSettles(i, ok)
  \/ Quiet /\ \E t \in Tasks : StartCleanupGmailAgent(t)
  \/ Quiet /\ \E s \in SessionIds \cup {JsNull} : ClearUserSession(s)
  \/ Quiet /\ Sigint
  \/ ServerClosed

SeqSpec == Init /\ [][SeqNext]_vars

(***************************************************************************)
(* The module when no call to Composio or to an MCP server ever fails.      *)
(***************************************************************************)
ReliableNext ==
  \/ \E t \in Tasks, ctx \in Contexts, time \in Instants : StartInstructions(t, ctx, time)
  \/ \E t \in Tasks, ctx \in Contexts, time \in Instants : StartTools(t, ctx, time)
  \/ \E t \in Tasks, status \in ProviderStatus, time \in Instants :
       ListSettles(t, TRUE, status, time)
  \/ \E t \in Tasks : GetToolsSettles(t, TRUE)
  \/ \E t \in Tasks : DisconnectSettles(t, TRUE)
  \/ \E t \in Tasks, u \in UserIds : StartAuthorize(t, u)
  \/ \E t \in Tasks : AuthorizeSettles(t, TRUE)
  \/ \E u \in UserIds : CompleteAuthorization(u)
  \/ \E u \in UserIds : ClearGmailAgentCache(u)
  \/ \E i \in 1..Len(detached) : DetachedDisconnectSettles(i, TRUE)
  \/ \E t \in Tasks : StartCleanupGmailAgent(t)
  \/ \E s \in SessionIds \cup {JsNull} : ClearUserSession(s)
  \/ Sigint
  \/ ServerClosed

ReliableSpec == Init /\ [][ReliableNext]_vars

(***************************************************************************)
(* The module serving requests of every kind of runtime context: a userId,  *)
(* a userId and a sessionId, one of two sessionIds, or neither (the session *)
(* 'default-session' of line 34); no call to Composio or to an MCP server   *)
(* fails.                                                                    *)
(***************************************************************************)
IdentityContexts ==
  Contexts \cup { [userId |-> "alice", sessionId |-> "s1"],
                  [userId |-> JsNull, sessionId |-> JsNull] }

IdentityNext ==
  \/ \E t \in Tasks, ctx \in IdentityContexts, time \in Instants :
       StartInstructions(t, ctx, time)
  \/ \E t \in Tasks, ctx \in IdentityContexts, time \in Instants : StartTools(t, ctx, time)
  \/ \E t \in Tasks, status \in ProviderStatus, time \in Instants :
       ListSettles(t, TRUE, status, time)
  \/ \E t \in Tasks : GetToolsSettles(t, TRUE)
  \/ \E t \in Tasks : DisconnectSettles(t, TRUE)
  \/ \E t \in Tasks, u \in UserIds : StartAuthorize(t, u)
  \/ \E t \in Tasks : AuthorizeSettles(t, TRUE)
  \/ \E u \in UserIds : CompleteAuthorization(u)
  \/ \E u \in UserIds : ClearGmailAgentCache(u)
  \/ \E i \in 1..Len(detached) : DetachedDisconnectSettles(i, TRUE)
  \/ \E t \in Tasks : StartCleanupGmailAgent(t)
  \/ \E s \in SessionIds \cup {JsNull} : ClearUserSession(s)
  \/ Sigint
  \/ ServerClosed

IdentitySpec == Init /\ [][IdentityNext]_vars

(***************************************************************************)
(* What a step shows of the call it ran.                                    *)
(***************************************************************************)
Resolvers == {"instructions", "tools"}

\* The step starts a call.
Starting == calls' = calls + 1

\* The step runs a call on from the settling of connectedAccounts.list.
ListAnswered == \E t \in Tasks : task[t].pc = "list" /\ task'[t] /= task[t]

\* The call the step ran, as the step leaves it: suspended in its slot or ended.
Acted == ({last'} \cup {task'[t] : t \in {s \in Tasks : task'[s] /= task[s]}}) \ {IdleTask}

\* The tools of a returned tool map without the authorize tool.
LoadedTools(ret) == [n \in (DOMAIN ret) \ {"authorize_gmail"} |-> ret[n]]

(***************************************************************************)
(* C1: a get-or-fetch that finds a value stored less than CACHE_TTL ago     *)
(* (an auth status) or stored and not invalidated (a tool set) returns that *)
(* very value and invokes no remote fetch: getCachedAuthStatus does not     *)
(* call connectedAccounts.list, getCachedTools does not call getTools, and  *)
(* neither touches the stored entry.                                         *)
(***************************************************************************)
C1_HitReturnsStoredValueWithoutFetch ==
  [][ \A r \in Acted : r.op \in Resolvers =>
        /\ ( /\ Starting
             /\ Has(authStatusCache, AuthKey(r.userId))
             /\ now' - authStatusCache[AuthKey(r.userId)].timestamp < CACHE_TTL )
           => /\ r.pc /= "list"
              /\ "list" \notin r.fetched
              /\ r.authStatus = authStatusCache[AuthKey(r.userId)]
              /\ authStatusCache' = authStatusCache
        /\ ( /\ Starting \/ ListAnswered
             /\ r.op = "tools"
             /\ r.pc /= "list"
             /\ Has(toolsCache, r.cacheKey) )
           => /\ r.pc = "done"
              /\ r.fetched = {}
              /\ LoadedTools(r.ret) = toolsCache[r.cacheKey].tools
              /\ toolsCache' = toolsCache
              /\ clients' = clients ]_vars

\* A tools resolution that ended with both lookups served from the caches, the
\* auth status 1 ms or more after it was stored.
C1_Witness ==
  /\ last.op = "tools"
  /\ last.pc = "done"
  /\ last.fetched = {}
  /\ ~last.caught
  /\ last.authStatus.timestamp >= 0
  /\ last.authStatus.timestamp < now
  /\ Has(toolsCache, last.cacheKey)

(***************************************************************************)
(* C2: a failing auth-status fetch is never memoized: when                  *)
(* connectedAccounts.list has failed inside getCachedAuthStatus, the call   *)
(* leaves no entry under the user's auth key.                                *)
(***************************************************************************)
C2_FailedFetchLeavesNoEntry ==
  (last.op = "instructions" /\ last.caught) => ~Has(authStatusCache, AuthKey(last.userId))

(***************************************************************************)
(* C3: a population failure is never swallowed: a resolution whose          *)
(* connectedAccounts.list or getTools failed ends in a failure its caller   *)
(* sees, never in a returned value.                                          *)
(***************************************************************************)
C3_PopulationFailureReachesCaller ==
  (last.op \in Resolvers /\ last.caught) => last.pc = "thrown"

(***************************************************************************)
(* C4: auth-status entries expire after CACHE_TTL: a call made more than    *)
(* CACHE_TTL after the entry's timestamp queries the provider, a call made  *)
(* less than CACHE_TTL after it does not, and the settled query overwrites  *)
(* the entry with the value the call goes on with and a new timestamp.      *)
(***************************************************************************)
C4_AuthEntryExpiresAfterTtl ==
  [][ \A r \in Acted : r.op \in Resolvers =>
        LET k == AuthKey(r.userId)
        IN  /\ (Starting /\ Has(authStatusCache, k)
                  /\ now' - authStatusCache[k].timestamp > CACHE_TTL)
               => r.pc = "list" /\ r.fetched = {"list"}
            /\ (Starting /\ Has(authStatusCache, k)
                  /\ now' - authStatusCache[k].timestamp < CACHE_TTL)
               => r.pc /= "list"
            /\ ListAnswered
               => /\ Has(authStatusCache', k)
                  /\ authStatusCache'[k] = r.authStatus
                  /\ authStatusCache'[k].timestamp = now'
                  /\ Has(authStatusCache, k)
                       => authStatusCache'[k].timestamp >= authStatusCache[k].timestamp ]_vars

\* An instructions resolution that found an entry older than CACHE_TTL, queried
\* the provider and stored the answer under a timestamp more than CACHE_TTL later.
C4_Witness ==
  /\ last.op = "instructions"
  /\ last.pc = "done"
  /\ last.cached /= NoEntry
  /\ last.fetched = {"list"}
  /\ Has(authStatusCache, AuthKey(last.userId))
  /\ authStatusCache[AuthKey(last.userId)] = last.authStatus
  /\ last.authStatus.timestamp - last.cached.timestamp > CACHE_TTL

(***************************************************************************)
(* C5: tool-set entries expire after the same CACHE_TTL as auth-status      *)
(* entries: a getCachedTools call that finds a tool set stored more than    *)
(* CACHE_TTL ago loads the tools again with getTools.                        *)
(***************************************************************************)
C5_ToolSetExpiresAfterTtl ==
  [][ \A r \in Acted :
        ( /\ r.op = "tools"
          /\ Starting \/ ListAnswered
          /\ r.pc /= "list"
          /\ Has(toolsCache, r.cacheKey)
          /\ now' - toolsCache[r.cacheKey].storedAt > CACHE_TTL )
        => r.pc = "getTools" /\ "getTools" \in r.fetched ]_vars

(***************************************************************************)
(* C6: when clearGmailAgentCache(userId) has returned and no disconnect()   *)
(* it started is pending, no cache holds an entry under the user's auth key *)
(* or under any tools key the tools resolver makes for the user             *)
(* (unauthenticated, or with the connection id).                             *)
(***************************************************************************)
UserKeys(userId) ==
  {AuthKey(userId), ToolsKey(userId, JsNull), ToolsKey(userId, ConnId(userId))}

C6_ClearLeavesNoEntryOfTheUser ==
  (last.op = "clearGmailAgentCache" /\ detached = <<>>)
    => \A k \in UserKeys(last.userId) :
         ~Has(authStatusCache, k) /\ ~Has(toolsCache, k) /\ ~Has(mcpClientCache, k)

(***************************************************************************)
(* C7: changes of the auth status are picked up without delay: a resolution *)
(* that begins when the provider reports the user's gmail connection ACTIVE *)
(* works with the connected status, and the tools resolver with the tools   *)
(* key of the connected account (no call to Composio failing).               *)
(***************************************************************************)
C7_ActiveConnectionSeenAtOnce ==
  (last.op \in Resolvers /\ last.pc = "done" /\ last.began = "ACTIVE")
    => /\ last.authStatus.connected
       /\ last.op = "tools" => last.cacheKey = ToolsKey(last.userId, ConnId(last.userId))

(***************************************************************************)
(* C8: an invalidated key is absent, and a get-or-fetch of the key that     *)
(* runs right after the invalidation (auth status: the delete of the auth   *)
(* key; tool set: cleanupMCPClient of the tools key) invokes the remote     *)
(* fetch, connectedAccounts.list or getTools, whatever the age of the       *)
(* removed entry was.                                                        *)
(***************************************************************************)
C8_FetchAfterInvalidation ==
  /\ \A i \in justInvalidated : ~Has(authStatusCache, i.key) /\ ~Has(toolsCache, i.key)
  /\ \A r \in {last} \cup {task[t] : t \in Tasks} :
       (r.op \in Resolvers /\ r.imm /= {})
         => IF r.cacheKey = JsNull THEN "list" \in r.fetched ELSE "getTools" \in r.fetched

\* A resolution suspended in connectedAccounts.list that began right after the
\* user's auth status, stored less than CACHE_TTL before, was deleted.
C8_Witness ==
  \E t \in Tasks :
    /\ task[t].pc = "list"
    /\ \E i \in task[t].imm :
         /\ i.key = AuthKey(task[t].userId)
         /\ i.timestamp >= 0
         /\ now - i.timestamp < CACHE_TTL

(***************************************************************************)
(* C9: when cleanupGmailAgent has returned, all four caches are empty and   *)
(* disconnect() has been called exactly once on every client that was       *)
(* cached when it began, also when a disconnect() failed.                    *)
(***************************************************************************)
C9_CleanupEmptiesCachesAndDisconnectsOnce ==
  (last.op = "cleanupGmailAgent" /\ last.pc = "done")
    => /\ authStatusCache = EmptyMap
       /\ toolsCache = EmptyMap
       /\ mcpClientCache = EmptyMap
       /\ userSessionCache = EmptyMap
       /\ \A c \in last.snapshot : clients[c].disconnects = 1

\* cleanupGmailAgent returned after it disconnected two cached clients, the
\* disconnect() of one of them failing.
C9_Witness ==
  /\ last.op = "cleanupGmailAgent"
  /\ last.pc = "done"
  /\ Cardinality(last.snapshot) >= 2
  /\ last.threw /= {}
  /\ last.threw /= last.snapshot
  /\ \A c \in last.snapshot : clients[c].disconnects = 1
  /\ mcpClientCache = EmptyMap

(***************************************************************************)
(* C10: the SIGINT handler runs cleanupGmailAgent: when the process has     *)
(* exited, every client the cache holds has been disconnected.               *)
(***************************************************************************)
C10_ExitDisconnectsCachedClients ==
  proc = "exited"
    => \A k \in DOMAIN mcpClientCache : clients[mcpClientCache[k]].disconnects >= 1

(***************************************************************************)
(* C11: when a cleanupMCPClient(key) that found a client returns, whether   *)
(* client.disconnect() resolved or rejected, neither mcpClientCache nor     *)
(* toolsCache holds the key, and its caller goes on without an error:       *)
(* getCachedTools returns, the loop of cleanupGmailAgent continues.          *)
(***************************************************************************)
C11_CleanupRemovesKeyWhateverDisconnectDid ==
  [][ /\ \A t \in Tasks :
           (task[t].pc = "disconnect" /\ task'[t] /= task[t])
             => /\ ~Has(mcpClientCache', task[t].key)
                /\ ~Has(toolsCache', task[t].key)
                /\ \A r \in Acted : r.pc \in {"done", "disconnect"}
      /\ \A i \in 1..Len(detached) :
           detached' = SubSeq(detached, 1, i - 1) \o SubSeq(detached, i + 1, Len(detached))
             => /\ ~Has(mcpClientCache', detached[i].key)
                /\ ~Has(toolsCache', detached[i].key) ]_vars

\* A tools resolution returned after its getTools failed and the disconnect()
\* of the cleanup failed too: the key is in neither map.
C11_Witness ==
  /\ last.op = "tools"
  /\ last.pc = "done"
  /\ last.caught
  /\ last.client /= 0
  /\ last.threw = {last.client}
  /\ ~Has(mcpClientCache, last.key)
  /\ ~Has(toolsCache, last.key)

(***************************************************************************)
(* C12: disposal is idempotent.  From every reachable state, a second       *)
(* cleanupMCPClient of a key right after the first has returned finds no    *)
(* client, calls no disconnect() and changes nothing; a cleanupMCPClient of *)
(* a key without client calls no disconnect(); and however the calls of     *)
(* cleanupMCPClient on a key follow each other, no client has disconnect()  *)
(* called on it more than once in total.                                     *)
(***************************************************************************)
CleanupKeys ==
  UNION { {ToolsKey(u, JsNull), ToolsKey(u, ConnId(u)), "gmail-" \o u \o "-null"} :
          u \in UserIds }

CleanupTwice(key, ok) ==
  LET c1 == cleanupMCPClient(key, mcpClientCache, toolsCache, clients)
      a1 == IF c1.client /= 0
              THEN AfterDisconnect(key, mcpClientCache, c1.toolsCache, ok)
              ELSE [mcpClientCache |-> mcpClientCache, toolsCache |-> c1.toolsCache]
      c2 == cleanupMCPClient(key, a1.mcpClientCache, a1.toolsCache, c1.clients)
  IN  /\ c1.client = 0 => c1.clients = clients
      /\ c2.client = 0
      /\ c2.clients = c1.clients
      /\ c2.toolsCache = a1.toolsCache

C12_DisposalIsIdempotent ==
  /\ \A key \in CleanupKeys, ok \in BOOLEAN : CleanupTwice(key, ok)
  /\ \A c \in 1..Len(clients) : clients[c].disconnects <= 1

\* clearGmailAgentCache ran cleanupMCPClient on the unauthenticated key of a
\* user whose client of that key had been disposed before: nothing is pending
\* and the client was disconnected once.
C12_Witness ==
  /\ last.op = "clearGmailAgentCache"
  /\ detached = <<>>
  /\ ~Has(mcpClientCache, ToolsKey(last.userId, JsNull))
  /\ \E c \in 1..Len(clients) :
       /\ clients[c].userId = last.userId
       /\ clients[c].account = JsNull
       /\ clients[c].disconnects = 1

(***************************************************************************)
(* C13: a client handle is not time-expired.  No step removes or replaces   *)
(* an mcpClientCache entry except the end of a cleanupMCPClient of its key, *)
(* least of all a step in which time has passed; and a getCachedTools that  *)
(* finds a client under its key (and no tool set) calls getTools on that    *)
(* very client and creates none.                                             *)
(***************************************************************************)
C13_ClientKeptUntilDisposed ==
  [][ /\ \A k \in DOMAIN mcpClientCache :
           \/ Has(mcpClientCache', k) /\ mcpClientCache'[k] = mcpClientCache[k]
           \/ now' = now /\ k \in {i.key : i \in justInvalidated'}
      /\ \A r \in Acted :
           ( /\ r.op = "tools"
             /\ Starting \/ ListAnswered
             /\ r.pc = "getTools"
             /\ Has(mcpClientCache, r.cacheKey) )
           => /\ r.mcpClient = mcpClientCache[r.cacheKey]
              /\ mcpClientCache' = mcpClientCache
              /\ clients' = clients ]_vars

\* Two tools resolutions wait for getTools of the same cached client; the
\* second got its auth status more than CACHE_TTL after the first, so the
\* client was more than CACHE_TTL old when the second found and reused it.
C13_Witness ==
  \E t1, t2 \in Tasks :
    /\ t1 /= t2
    /\ task[t1].pc = "getTools"
    /\ task[t2].pc = "getTools"
    /\ task[t1].mcpClient = task[t2].mcpClient
    /\ task[t1].cacheKey = task[t2].cacheKey
    /\ Has(mcpClientCache, task[t1].cacheKey)
    /\ mcpClientCache[task[t1].cacheKey] = task[t1].mcpClient
    /\ task[t2].authStatus.timestamp - task[t1].authStatus.timestamp > CACHE_TTL

(***************************************************************************)
(* C14: concurrent misses are not single-flight and the last write wins: a  *)
(* getCachedAuthStatus that starts without a valid entry calls              *)
(* connectedAccounts.list, whether or not another call for the user is      *)
(* already waiting for it, and when its list settles it sets the entry to   *)
(* its own status, whatever an earlier call has stored there: the entry is  *)
(* the status of the call that wrote last.                                   *)
(***************************************************************************)
C14_ConcurrentMissesLastWriteWins ==
  [][ \A r \in Acted : r.op \in Resolvers =>
        LET k == AuthKey(r.userId)
        IN  /\ ( /\ Starting
                 /\ ~ ( /\ Has(authStatusCache, k)
                        /\ now' - authStatusCache[k].timestamp < CACHE_TTL ) )
               => r.pc = "list" /\ r.fetched = {"list"}
            /\ ListAnswered
               => /\ authStatusCache' = Put(authStatusCache, k, r.authStatus)
                  /\ r.authStatus.timestamp = now' ]_vars

\* An instructions resolution that began without an entry has returned; while
\* it waited, another call stored a different status, which it overwrote.
C14_Witness ==
  /\ last.op = "instructions"
  /\ last.pc = "done"
  /\ last.cached = NoEntry
  /\ last.fetched = {"list"}
  /\ last.overwrote /= NoEntry
  /\ last.overwrote.connected /= last.authStatus.connected
  /\ authStatusCache[AuthKey(last.userId)] = last.authStatus

(***************************************************************************)
(* C15: the authorization tool is always available: every tools resolution  *)
(* returns, and the tool map it returns holds authorize_gmail, the          *)
(* authorize tool of its user, whether the tools came from the cache, from  *)
(* a fresh load or the load failed.                                          *)
(***************************************************************************)
C15_AuthorizeToolAlwaysReturned ==
  (last.op = "tools" /\ Ended(last))
    => /\ last.pc = "done"
       /\ "authorize_gmail" \in DOMAIN last.ret
       /\ last.ret["authorize_gmail"] = AuthorizeTool(last.userId)

\* A tools resolution whose getTools failed returned a tool map holding the
\* authorize tool and nothing else.
C15_Witness ==
  /\ last.op = "tools"
  /\ last.pc = "done"
  /\ last.caught
  /\ DOMAIN last.ret = {"authorize_gmail"}
  /\ last.ret["authorize_gmail"].userId = last.userId

(***************************************************************************)
(* C16: validity uses a strict bound of 300000 ms: a getCachedAuthStatus    *)
(* that finds an entry returns it without a query if and only if            *)
(* Date.now() - timestamp < CACHE_TTL; at a difference of exactly CACHE_TTL *)
(* the entry is stale and connectedAccounts.list is called.                  *)
(***************************************************************************)
C16_StrictTtlBound ==
  [][ \A r \in Acted : (r.op \in Resolvers /\ Starting /\ Has(authStatusCache, AuthKey(r.userId)))
        => LET age == now' - authStatusCache[AuthKey(r.userId)].timestamp
           IN  /\ CACHE_TTL = 300000
               /\ r.pc /= "list" <=> age < CACHE_TTL
               /\ age < CACHE_TTL => r.authStatus = authStatusCache[AuthKey(r.userId)]
               /\ age = CACHE_TTL => r.pc = "list" /\ r.fetched = {"list"} ]_vars

\* An instructions resolution found an entry exactly CACHE_TTL old, queried
\* the provider and stored the answer.
C16_Witness ==
  /\ last.op = "instructions"
  /\ last.pc = "done"
  /\ last.cached /= NoEntry
  /\ last.fetched = {"list"}
  /\ last.authStatus.timestamp - last.cached.timestamp = CACHE_TTL

(***************************************************************************)
(* C17: a failed tool load is not cached and releases its handle.  When a   *)
(* tools resolution whose getTools failed returns, disconnect() has been    *)
(* called on the client it called getTools on, and neither mcpClientCache   *)
(* nor toolsCache holds its key.                                             *)
(***************************************************************************)
C17_FailedLoadDisconnectsItsClient ==
  (last.op = "tools" /\ last.pc = "done" /\ last.caught)
    => /\ clients[last.mcpClient].disconnects >= 1
       /\ ~Has(mcpClientCache, last.cacheKey)
       /\ ~Has(toolsCache, last.cacheKey)

(***************************************************************************)
(* C17 for calls made one after the other: the client of the failed load is *)
(* disconnected exactly once and its key is in neither map; and a           *)
(* getCachedTools of a key that runs right after the key was cleaned up     *)
(* waits for getTools of a client it has just created.                       *)
(***************************************************************************)
C17_FailedLoadReleasesHandle ==
  /\ (last.op = "tools" /\ last.pc = "done" /\ last.caught)
       => /\ clients[last.mcpClient].disconnects = 1
          /\ ~Has(mcpClientCache, last.cacheKey)
          /\ ~Has(toolsCache, last.cacheKey)
  /\ \A t \in Tasks :
       (task[t].op = "tools" /\ task[t].pc = "getTools" /\ task[t].imm /= {})
         => /\ task[t].mcpClient = Len(clients)
            /\ clients[task[t].mcpClient].disconnects = 0
            /\ mcpClientCache[task[t].cacheKey] = task[t].mcpClient
            /\ task[t].fetched = {"getTools"}

\* A tools resolution returned after getTools failed on its client: the client
\* was disconnected and its key is in neither map.
C17_Witness ==
  /\ last.op = "tools"
  /\ last.pc = "done"
  /\ last.caught
  /\ last.key = last.cacheKey
  /\ last.client = last.mcpClient
  /\ clients[last.mcpClient].disconnects = 1
  /\ ~Has(mcpClientCache, last.cacheKey)
  /\ ~Has(toolsCache, last.cacheKey)
  /\ DOMAIN last.ret = {"authorize_gmail"}
  /\ last.threw = {}

(***************************************************************************)
(* C18: invalidation is narrow.  A step of clearGmailAgentCache(userId), of *)
(* the authorize tool's cache clear or of a cleanupMCPClient(key) (in the   *)
(* catch of getCachedTools, in the loop of cleanupGmailAgent, or one nobody *)
(* awaits) changes no entry of the three caches other than those under the  *)
(* keys it names, and calls disconnect() on no client of another user.      *)
(***************************************************************************)
ClientsOf(userId) == {c \in 1..Len(clients) : clients[c].userId = userId}

SameEntry(m, n, k) == (Has(m, k) <=> Has(n, k)) /\ (Has(m, k) => n[k] = m[k])

OnlyUnder(keys, cs) ==
  /\ \A k \in (DOMAIN authStatusCache \cup DOMAIN authStatusCache') \ keys :
       SameEntry(authStatusCache, authStatusCache', k)
  /\ \A k \in (DOMAIN toolsCache \cup DOMAIN toolsCache') \ keys :
       SameEntry(toolsCache, toolsCache', k)
  /\ \A k \in (DOMAIN mcpClientCache \cup DOMAIN mcpClientCache') \ keys :
       SameEntry(mcpClientCache, mcpClientCache', k)
  /\ Len(clients') = Len(clients)
  /\ \A c \in (1..Len(clients)) \ cs : clients'[c] = clients[c]

C18_InvalidationIsNarrow ==
  [][ /\ last'.op = "clearGmailAgentCache"
        => OnlyUnder({AuthKey(last'.userId), "gmail-" \o last'.userId \o "-unauth",
                      "gmail-" \o last'.userId \o "-null"},
                     ClientsOf(last'.userId))
      /\ \A t \in Tasks :
           /\ (task[t].pc = "authorize" /\ task'[t] /= task[t])
                => OnlyUnder({AuthKey(task[t].userId)}, {})
           /\ (task[t].op = "tools" /\ task[t].pc = "getTools" /\ task'[t] /= task[t])
                => OnlyUnder({task[t].cacheKey}, ClientsOf(task[t].userId))
           /\ (task[t].op = "tools" /\ task[t].pc = "disconnect" /\ task'[t] /= task[t])
                => OnlyUnder({task[t].key}, {})
           /\ (task[t].op = "cleanupGmailAgent" /\ task[t].pc = "disconnect"
                 /\ task'[t].pc = "disconnect" /\ task'[t] /= task[t])
                => /\ OnlyUnder({task[t].key, task'[t].key}, {task'[t].client})
                   /\ mcpClientCache[task'[t].key] = task'[t].client
      /\ Len(detached') < Len(detached)
           => \E i \in 1..Len(detached) : OnlyUnder({detached[i].key}, {})
    ]_vars

\* clearGmailAgentCache(userId) has just disconnected a client of the user
\* while another user has an auth status, a client and a tool set cached.
C18_Witness ==
  /\ last.op = "clearGmailAgentCache"
  /\ detached /= <<>>
  /\ clients[detached[1].client].userId = last.userId
  /\ \E u \in UserIds \ {last.userId} :
       /\ Has(authStatusCache, AuthKey(u))
       /\ \E k \in DOMAIN mcpClientCache :
            /\ clients[mcpClientCache[k]].userId = u
            /\ clients[mcpClientCache[k]].disconnects = 0
            /\ Has(toolsCache, k)

(***************************************************************************)
(* C19: user identity is stable per session.  A resolver called with a      *)
(* userId in its context works for that userId and leaves userSessionCache  *)
(* alone; one called without works for the userId stored for its sessionId  *)
(* ('default-session' without one), or, when none is stored, for a          *)
(* generated userId no request received before, which it stores for the     *)
(* session.  A stored userId changes or goes only by clearUserSession or at *)
(* the end of cleanupGmailAgent, and no two sessions have the same userId.  *)
(* uuidv4() is taken to return a new value on every call.                    *)
(***************************************************************************)
Generated == {Uuid(n) : n \in 1..uuidCount}

C19_UserIdentityStablePerSession ==
  [][ /\ Starting
        => \A r \in Acted :
             r.op \in Resolvers
               => IF Truthy(r.context.userId)
                    THEN /\ r.userId = r.context.userId
                         /\ userSessionCache' = userSessionCache
                         /\ uuidCount' = uuidCount
                    ELSE IF Has(userSessionCache, SessionOf(r.context))
                      THEN /\ r.userId = userSessionCache[SessionOf(r.context)]
                           /\ userSessionCache' = userSessionCache
                           /\ uuidCount' = uuidCount
                      ELSE /\ r.userId \notin Generated \cup ProvidedUserIds
                           /\ \A s \in DOMAIN userSessionCache :
                                userSessionCache[s] /= r.userId
                           /\ userSessionCache'
                                = Put(userSessionCache, SessionOf(r.context), r.userId)
      /\ \A s \in DOMAIN userSessionCache :
           \/ Has(userSessionCache', s) /\ userSessionCache'[s] = userSessionCache[s]
           \/ last'.op = "cleanupGmailAgent"
           \/ Starting /\ task' = task /\ last' = IdleTask
      /\ \A s1, s2 \in DOMAIN userSessionCache' :
           s1 /= s2 => userSessionCache'[s1] /= userSessionCache'[s2]
    ]_vars

\* Two requests of different sessions are in flight, each for the generated
\* userId stored for its session, and the two differ.
C19_Witness ==
  \E t1, t2 \in Tasks :
    /\ task[t1].op \in Resolvers
    /\ task[t2].op \in Resolvers
    /\ task[t1].context = [userId |-> JsNull, sessionId |-> "s1"]
    /\ task[t2].context = [userId |-> JsNull, sessionId |-> JsNull]
    /\ Has(userSessionCache, "s1")
    /\ Has(userSessionCache, "default-session")
    /\ task[t1].userId = userSessionCache["s1"]
    /\ task[t2].userId = userSessionCache["default-session"]
    /\ task[t1].userId /= task[t2].userId

(***************************************************************************)
(* C20: the authorize tool invalidates the auth status only on success.     *)
(* When composio.toolkits.authorize has settled and execute returns: after  *)
(* a success the entry auth-<userId> is absent; after a failure the result  *)
(* has success = false, no error is raised, and the four caches and the     *)
(* clients are as they were.                                                 *)
(***************************************************************************)
C20_AuthorizeInvalidatesOnSuccessOnly ==
  [][ \A t \in Tasks :
        (task[t].pc = "authorize" /\ task'[t] /= task[t])
          => /\ last'.op = "authorize"
             /\ last'.pc = "done"
             /\ last'.userId = task[t].userId
             /\ last'.ret \in {[success |-> TRUE], [success |-> FALSE]}
             /\ last'.ret.success
                  => /\ ~Has(authStatusCache', AuthKey(task[t].userId))
                     /\ ~last'.caught
             /\ ~last'.ret.success
                  => /\ last'.caught
                     /\ authStatusCache' = authStatusCache
                     /\ toolsCache' = toolsCache
                     /\ mcpClientCache' = mcpClientCache
                     /\ userSessionCache' = userSessionCache
                     /\ clients' = clients
                     /\ provider' = provider
    ]_vars

\* execute returned success = false after authorize failed, and the auth
\* status of the user is still cached.
C20_Witness ==
  /\ last.op = "authorize"
  /\ last.pc = "done"
  /\ last.caught
  /\ last.ret = [success |-> FALSE]
  /\ Has(authStatusCache, AuthKey(last.userId))

(***************************************************************************)
(* C21: lifecycle coupling.  In every reachable state, for every key of     *)
(* toolsCache of which no cleanup is in progress (no cleanupMCPClient of    *)
(* the key is suspended in disconnect(), awaited or not, and no             *)
(* cleanupGmailAgent is running), mcpClientCache holds under that key a     *)
(* client on which disconnect() has not been called.                         *)
(***************************************************************************)
CleaningUp(k) ==
  \/ \E t \in Tasks : task[t].pc = "disconnect" /\ task[t].key = k
  \/ \E t \in Tasks : task[t].op = "cleanupGmailAgent"
  \/ \E i \in 1..Len(detached) : detached[i].key = k

C21_ToolSetHasBackingHandle ==
  \A k \in DOMAIN toolsCache :
    ~CleaningUp(k)
      => /\ Has(mcpClientCache, k)
         /\ clients[mcpClientCache[k]].disconnects = 0

(***************************************************************************)
(* C22: no stale value survives an invalidation.  When the auth status of a *)
(* user has just been invalidated (the delete of the authorize tool or of   *)
(* clearGmailAgentCache) while a connectedAccounts.list for that user was   *)
(* in flight, the settling of that list does not put its result under the   *)
(* user's auth key, so that no later getCachedAuthStatus is served a status *)
(* whose query was started before the invalidation.                          *)
(***************************************************************************)
InvalidatedInFlight(t) ==
  /\ task[t].pc = "list"
  /\ last.op \in {"authorize", "clearGmailAgentCache"}
  /\ last.userId = task[t].userId
  /\ \E i \in justInvalidated : i.key = AuthKey(task[t].userId)

C22_InFlightFetchDoesNotRepopulate ==
  [][ \A t \in Tasks :
        (InvalidatedInFlight(t) /\ task'[t] /= task[t])
          => ~Has(authStatusCache', AuthKey(task[t].userId))
    ]_vars

(***************************************************************************)
(* C23: no client handle leaks.  Whenever every started operation has       *)
(* finished (no call is in flight and no un-awaited cleanupMCPClient is     *)
(* pending), every MCPClient ever created is still a value of               *)
(* mcpClientCache or has had disconnect() called on it.                      *)
(***************************************************************************)
Cached(c) == \E k \in DOMAIN mcpClientCache : mcpClientCache[k] = c

C23_NoClientLeaks ==
  Quiet => \A c \in 1..Len(clients) : Cached(c) \/ clients[c].disconnects >= 1

(***************************************************************************)
(* C24: each client handle is disposed at most once, also when calls of     *)
(* cleanupMCPClient on one key overlap: no MCPClient ever has disconnect()  *)
(* called on it more than once.                                              *)
(***************************************************************************)
C24_DisconnectedAtMostOnce ==
  \A c \in 1..Len(clients) : clients[c].disconnects <= 1

(***************************************************************************)
(* C25: no use after dispose.  A getCachedTools that goes on to getTools()  *)
(* calls it on a client on which disconnect() has not been called: the      *)
(* client it created, or one it found in mcpClientCache.                     *)
(***************************************************************************)
C25_NoUseAfterDispose ==
  [][ \A r \in Acted :
        (r.op = "tools" /\ (Starting \/ ListAnswered) /\ r.pc = "getTools")
          => clients'[r.mcpClient].disconnects = 0
    ]_vars

(***************************************************************************)
(* C26: per-user isolation of tool sets.  The tools a tools resolver        *)
(* returns for a user were loaded through a client created for that user    *)
(* with the connection id (or none) that getCachedAuthStatus returned in    *)
(* that request; every cached client and tool set sits under the tools key  *)
(* of its own user and connection id; and different pairs of user and       *)
(* connection id have different tools keys.  The user ids include one with  *)
(* the separator of the key in it; connection ids are the provider's.       *)
(***************************************************************************)
KeyUserIds == UserIds \cup {"alice-ca_alice", "alice-unauth"}

KeyPairs == KeyUserIds \X ({JsNull} \cup {ConnId(u) : u \in UserIds})

LoadedThrough(tools) == {tools[n].client : n \in DOMAIN tools}

OwnKey(k, c) == k = ToolsKey(clients[c].userId, clients[c].account)

ToolsKeysDiffer ==
  \A p, q \in KeyPairs : ToolsKey(p[1], p[2]) = ToolsKey(q[1], q[2]) => p = q

C26_ToolSetsIsolatedPerUser ==
  /\ (last.op = "tools" /\ last.pc = "done")
       => \A c \in LoadedThrough(LoadedTools(last.ret)) :
            /\ clients[c].userId = last.userId
            /\ clients[c].account = NewClient(last.userId, last.authStatus.connectionId).account
  /\ \A k \in DOMAIN mcpClientCache : OwnKey(k, mcpClientCache[k])
  /\ \A k \in DOMAIN toolsCache :
       \A c \in LoadedThrough(toolsCache[k].tools) : OwnKey(k, c)
  /\ ToolsKeysDiffer

\* A tools resolver returned a connected user's tool set from toolsCache while
\* the tool set of another user is cached too.
C26_Witness ==
  /\ last.op = "tools"
  /\ last.pc = "done"
  /\ last.fetched = {}
  /\ last.authStatus.connected
  /\ LoadedTools(last.ret) /= EmptyMap
  /\ \E k \in DOMAIN toolsCache :
       \E c \in LoadedThrough(toolsCache[k].tools) : clients[c].userId /= last.userId

====
